---- MODULE Spec2Model ----
(***************************************************************************)
(* Model of the bookshelf REST service of src/main.py: the JSON backing    *)
(* file, the Google Books lookup and the request handlers.                 *)
(*                                                                         *)
(* Python values are written as follows.  A dict is a function whose       *)
(* DOMAIN is its set of keys, a list is a sequence, None is the string     *)
(* PyNone and the booleans True and False are PyTrue and PyFalse (the      *)
(* field is_read holds one of the three, so they share one sort).          *)
(***************************************************************************)
EXTENDS Integers, Sequences, FiniteSets, TLC

\* ---------------------------------------------------------------- bounds
\* longest list an add may extend
MaxBooks == 3
\* worker threads that handle one request each at the same time
NumThreads == 3

\* ---------------------------------------------------------- Python values
PyNone  == "None"
PyTrue  == "True"
PyFalse == "False"

\* truth value of a stored is_read (None and False are falsy)
Truthy(v) == v = PyTrue

\* the Python operator `not`: always a bool, True for every falsy operand
PyNot(v) == IF Truthy(v) THEN PyFalse ELSE PyTrue

\* dict.get(key, default)
Get(d, k, default) == IF k \in DOMAIN d THEN d[k] ELSE default

\* str.join over a list of strings
RECURSIVE Join(_, _)
Join(sep, xs) ==
    IF Len(xs) = 0 THEN ""
    ELSE IF Len(xs) = 1 THEN xs[1]
    ELSE xs[1] \o sep \o Join(sep, Tail(xs))

\* ------------------------------------------------------------ input sets
ISBNs == {"123", "999"}

\* marks an optional field the request body leaves out
Absent == "<absent>"

\* a request body that passed validation: the optional keys may be missing
MkBody(i, d, r) ==
    [k \in {"title", "author", "isbn"}
           \cup (IF d = Absent THEN {} ELSE {"description"})
           \cup (IF r = Absent THEN {} ELSE {"is_read"}) |->
        CASE k = "title"       -> "Dune"
          [] k = "author"      -> "Frank Herbert"
          [] k = "isbn"        -> i
          [] k = "description" -> d
          [] k = "is_read"     -> r]

Bodies == { MkBody(i, d, r) : i \in ISBNs,
                              d \in {Absent},
                              r \in {Absent, PyTrue, PyNone} }

\* ------------------------------------------------------------------ Book
\* Book.model_dump(): every field, the defaults filled in
model_dump(body) ==
    [title       |-> body["title"],
     author      |-> body["author"],
     isbn        |-> body["isbn"],
     description |-> Get(body, "description", PyNone),
     is_read     |-> Get(body, "is_read", PyFalse)]

\* ----------------------------------------------------------------- store
\* the backing file books.json: missing, empty (opened for writing and not
\* yet written), a JSON list of records, or bytes that are not JSON
NoFile == [kind |-> "missing", books |-> <<>>]

\* open(BOOKS_FILE, "w"): the file exists and is truncated
TruncatedFile == [kind |-> "empty", books |-> <<>>]

\* what is left when a shorter dump lands on top of a longer one
GarbageFile == [kind |-> "garbage", books |-> <<>>]

\* load_books: FileNotFoundError and JSONDecodeError both give []
load_books(f) == IF f.kind = "json" THEN f.books ELSE <<>>

\* save_books run without interruption: the file holds the dumped list
save_books(books) == [kind |-> "json", books |-> books]

\* mutants of HasIsbn: only the first, only the last record is compared
HasIsbnFirst(books, isbn) == Len(books) > 0 /\ books[1].isbn = isbn

HasIsbnLast(books, isbn) == Len(books) > 0 /\ books[Len(books)].isbn = isbn

\* any(b["isbn"] == isbn for b in books)
HasIsbn(books, isbn) == \E i \in 1..Len(books) : books[i].isbn = isbn

\* mutant of FirstMatch: the last record with the isbn
LastMatch(books, isbn) ==
    IF \E i \in 1..Len(books) : books[i].isbn = isbn
    THEN CHOOSE i \in 1..Len(books) :
            /\ books[i].isbn = isbn
            /\ \A j \in (i+1)..Len(books) : books[j].isbn # isbn
    ELSE 0

\* index of the first record with the isbn, 0 when there is none
FirstMatch(books, isbn) ==
    IF HasIsbn(books, isbn)
    THEN CHOOSE i \in 1..Len(books) :
            /\ books[i].isbn = isbn
            /\ \A j \in 1..(i-1) : books[j].isbn # isbn
    ELSE 0

\* list.remove(x): drops the first element equal to x
RemoveFirst(books, x) ==
    LET i == CHOOSE k \in 1..Len(books) :
                 /\ books[k] = x
                 /\ \A j \in 1..(k-1) : books[j] # x
    IN  SubSeq(books, 1, i-1) \o SubSeq(books, i+1, Len(books))

\* ---------------------------------------------------------------- lookup
\* volumeInfo objects of the upstream answer: every key is optional
AuthorLists == { <<>>, <<"Frank Herbert">>, <<"Frank Herbert", "Brian Herbert">> }

MkVolumeInfo(K, authors) ==
    [k \in K |->
        CASE k = "title"       -> "Dune"
          [] k = "authors"     -> authors
          [] k = "description" -> "Sci-fi"]

VolumeInfos ==
    { MkVolumeInfo(K, a) : K \in SUBSET {"title", "authors", "description"},
                           a \in AuthorLists }

\* a second hit of the upstream search, never the one that is used
OtherItem ==
    [volumeInfo |-> [title |-> "Emma", authors |-> <<"Jane Austen">>,
                     description |-> "Novel"]]

\* response.json() of a 200 answer: no items key, no items, one or two items
Payloads ==
    { <<>> } \cup { [items |-> <<>>] }
    \cup { [items |-> << [volumeInfo |-> v] >>] : v \in VolumeInfos }
    \cup { [items |-> << [volumeInfo |-> v], OtherItem >>] : v \in VolumeInfos }

Responses ==
    { [status_code |-> 200, data |-> d] : d \in Payloads }
    \cup { [status_code |-> c, data |-> <<>>] : c \in {404, 503} }

\* the answers search-and-add is driven with: both failures, both empty
\* answers, and one item with no key or with every key
AddResponses ==
    { [status_code |-> c, data |-> <<>>] : c \in {200, 404, 503} }
    \cup { [status_code |-> 200, data |-> [items |-> <<>>]] }
    \cup { [status_code |-> 200, data |-> [items |-> << [volumeInfo |-> v] >>]] :
              v \in { MkVolumeInfo({}, <<>>),
                      MkVolumeInfo({"title", "authors", "description"},
                                   <<"Frank Herbert", "Brian Herbert">>) } }

NoResponse == [status_code |-> 0, data |-> <<>>]

\* fetch_google_book: the record returned, or the status of the HTTPException
fetch_google_book(isbn, response) ==
    IF response.status_code = 200
    THEN LET data == response.data IN
         IF "items" \in DOMAIN data /\ Len(data["items"]) > 0
         THEN LET volume_info == data["items"][1].volumeInfo IN
              [status_code |-> 200,
               book |-> [title       |-> Get(volume_info, "title", "Unknown"),
                         author      |-> Join(", ", Get(volume_info, "authors", <<"Unknown">>)),
                         isbn        |-> isbn,
                         description |-> Get(volume_info, "description", "No description available"),
                         is_read     |-> PyFalse]]
         ELSE [status_code |-> 404, book |-> <<>>]
    ELSE [status_code |-> response.status_code, book |-> <<>>]

\* ------------------------------------------------- sequential requests
\* file          the backing file books.json
\* req           the request handled last: operation, isbn, body, upstream answer
\* status        the HTTP status it returned
\* result        the book it returned (<<>> when it returned none)
\* before        the backing file when the request arrived
\* storeRead     the request called load_books
\* storeWritten  the request called save_books
\* before2       set after two successful toggle-read requests in a row on
\*               one isbn: the backing file when the first of them arrived
VARIABLES file, req, status, result, before, storeRead, storeWritten, before2

\* ------------------------------------------------- concurrent requests
\* pc       where each worker thread stands in its handler
\* creq     the request the thread handles
\* books    the thread's local list `books`
\* cstatus  the HTTP status the thread returned (0 while it runs)
\* seen     the list load_books returned to the thread
\* initial  the list the backing file held before any thread started
VARIABLES pc, creq, books, cstatus, seen, initial

svars == <<req, status, result, before, storeRead, storeWritten, before2>>

cvars == <<pc, creq, books, cstatus, seen, initial>>

vars == <<file, svars, cvars>>

Request(op, isbn, body, resp) ==
    [op |-> op, isbn |-> isbn, body |-> body, resp |-> resp]

NoBefore2 == [set |-> FALSE, file |-> NoFile]

Threads == 1..NumThreads

Init ==
    /\ file = NoFile
    /\ req = Request("none", "", <<>>, NoResponse)
    /\ status = 0
    /\ result = <<>>
    /\ before = NoFile
    /\ storeRead = FALSE
    /\ storeWritten = FALSE
    /\ before2 = NoBefore2
    /\ pc = [t \in Threads |-> "idle"]
    /\ creq = [t \in Threads |-> Request("none", "", <<>>, NoResponse)]
    /\ books = [t \in Threads |-> <<>>]
    /\ cstatus = [t \in Threads |-> 0]
    /\ seen = [t \in Threads |-> <<>>]
    /\ initial = <<>>

\* GET /books/search
search_book ==
    \E isbn \in ISBNs, response \in Responses :
        LET found == fetch_google_book(isbn, response) IN
        /\ req' = Request("search", isbn, <<>>, response)
        /\ before' = file
        /\ UNCHANGED cvars
        /\ status' = found.status_code
        /\ result' = found.book
        /\ storeRead' = FALSE
        /\ storeWritten' = FALSE
        /\ before2' = NoBefore2
        /\ UNCHANGED file

\* mutant of search_and_add_book: the store is loaded and checked for the
\* isbn before the lookup is called
search_and_add_book_load_first ==
    \E isbn \in ISBNs, response \in AddResponses :
        LET found == fetch_google_book(isbn, response)
            loaded == load_books(file)
        IN
        /\ req' = Request("search_add", isbn, <<>>, response)
        /\ before' = file
        /\ UNCHANGED cvars
        /\ before2' = NoBefore2
        /\ storeRead' = TRUE
        /\ IF HasIsbn(loaded, isbn)
           THEN /\ status' = 400
                /\ result' = <<>>
                /\ storeWritten' = FALSE
                /\ UNCHANGED file
           ELSE IF found.status_code # 200
           THEN /\ status' = found.status_code
                /\ result' = <<>>
                /\ storeWritten' = FALSE
                /\ UNCHANGED file
           ELSE /\ Len(loaded) < MaxBooks
                /\ status' = 200
                /\ result' = found.book
                /\ storeWritten' = TRUE
                /\ file' = save_books(Append(loaded, found.book))

\* POST /books/search
search_and_add_book ==
    \E isbn \in ISBNs, response \in AddResponses :
        LET found == fetch_google_book(isbn, response)
            loaded == load_books(file)
        IN
        /\ req' = Request("search_add", isbn, <<>>, response)
        /\ before' = file
        /\ UNCHANGED cvars
        /\ before2' = NoBefore2
        /\ IF found.status_code # 200
           THEN /\ status' = found.status_code
                /\ result' = <<>>
                /\ storeRead' = FALSE
                /\ storeWritten' = FALSE
                /\ UNCHANGED file
           ELSE IF HasIsbn(loaded, isbn)
           THEN /\ status' = 400
                /\ result' = <<>>
                /\ storeRead' = TRUE
                /\ storeWritten' = FALSE
                /\ UNCHANGED file
           ELSE /\ Len(loaded) < MaxBooks
                /\ status' = 200
                /\ result' = found.book
                /\ storeRead' = TRUE
                /\ storeWritten' = TRUE
                /\ file' = save_books(Append(loaded, found.book))

\* GET /books/{isbn}
get_book ==
    \E isbn \in ISBNs :
        LET loaded == load_books(file)
            index == FirstMatch(loaded, isbn)
        IN
        /\ req' = Request("get", isbn, <<>>, NoResponse)
        /\ before' = file
        /\ UNCHANGED cvars
        /\ before2' = NoBefore2
        /\ storeRead' = TRUE
        /\ storeWritten' = FALSE
        /\ status' = IF index = 0 THEN 404 ELSE 200
        /\ result' = IF index = 0 THEN <<>> ELSE loaded[index]
        /\ UNCHANGED file

\* mutant of add_book: the record is appended and saved before the
\* duplicate is reported
add_book_save_first ==
    \E book \in Bodies :
        LET loaded == load_books(file) IN
        /\ req' = Request("add", book["isbn"], book, NoResponse)
        /\ before' = file
        /\ UNCHANGED cvars
        /\ before2' = NoBefore2
        /\ storeRead' = TRUE
        /\ Len(loaded) < MaxBooks
        /\ status' = IF HasIsbn(loaded, book["isbn"]) THEN 400 ELSE 200
        /\ result' = IF HasIsbn(loaded, book["isbn"]) THEN <<>> ELSE model_dump(book)
        /\ storeWritten' = TRUE
        /\ file' = save_books(Append(loaded, model_dump(book)))

\* POST /books
add_book ==
    \E book \in Bodies :
        LET loaded == load_books(file) IN
        /\ req' = Request("add", book["isbn"], book, NoResponse)
        /\ before' = file
        /\ UNCHANGED cvars
        /\ before2' = NoBefore2
        /\ storeRead' = TRUE
        /\ IF HasIsbn(loaded, book["isbn"])
           THEN /\ status' = 400
                /\ result' = <<>>
                /\ storeWritten' = FALSE
                /\ UNCHANGED file
           ELSE /\ Len(loaded) < MaxBooks
                /\ status' = 200
                /\ result' = model_dump(book)
                /\ storeWritten' = TRUE
                /\ file' = save_books(Append(loaded, model_dump(book)))

\* PUT /books/{isbn}
update_book ==
    \E isbn \in ISBNs, updated_book \in Bodies :
        LET loaded == load_books(file)
            index == FirstMatch(loaded, isbn)
        IN
        /\ req' = Request("update", isbn, updated_book, NoResponse)
        /\ before' = file
        /\ UNCHANGED cvars
        /\ before2' = NoBefore2
        /\ storeRead' = TRUE
        /\ IF index = 0
           THEN /\ status' = 404
                /\ result' = <<>>
                /\ storeWritten' = FALSE
                /\ UNCHANGED file
           ELSE /\ status' = 200
                /\ result' = model_dump(updated_book)
                /\ storeWritten' = TRUE
                /\ file' = save_books([loaded EXCEPT ![index] = model_dump(updated_book)])

\* DELETE /books/{isbn}
delete_book ==
    \E isbn \in ISBNs :
        LET loaded == load_books(file)
            index == FirstMatch(loaded, isbn)
        IN
        /\ req' = Request("delete", isbn, <<>>, NoResponse)
        /\ before' = file
        /\ UNCHANGED cvars
        /\ before2' = NoBefore2
        /\ storeRead' = TRUE
        /\ result' = <<>>
        /\ IF index = 0
           THEN /\ status' = 404
                /\ storeWritten' = FALSE
                /\ UNCHANGED file
           ELSE /\ status' = 200
                /\ storeWritten' = TRUE
                /\ file' = save_books(RemoveFirst(loaded, loaded[index]))

\* PATCH /books/{isbn}/toggle-read
toggle_read_status ==
    \E isbn \in ISBNs :
        LET loaded == load_books(file)
            index == FirstMatch(loaded, isbn)
            toggled == [loaded EXCEPT ![index].is_read = PyNot(loaded[index].is_read)]
        IN
        /\ req' = Request("toggle", isbn, <<>>, NoResponse)
        /\ before' = file
        /\ UNCHANGED cvars
        /\ storeRead' = TRUE
        /\ IF index = 0
           THEN /\ status' = 404
                /\ result' = <<>>
                /\ storeWritten' = FALSE
                /\ before2' = NoBefore2
                /\ UNCHANGED file
           ELSE /\ status' = 200
                /\ result' = toggled[index]
                /\ storeWritten' = TRUE
                /\ before2' = IF req.op = "toggle" /\ req.isbn = isbn /\ status = 200
                              THEN [set |-> TRUE, file |-> before]
                              ELSE NoBefore2
                /\ file' = save_books(toggled)

Next ==
    \/ search_and_add_book
    \/ get_book
    \/ add_book
    \/ update_book
    \/ delete_book
    \/ toggle_read_status

Spec == Init /\ [][Next]_vars

\* the lookup on every upstream answer, alone and followed by the add
LookupNext ==
    \/ search_book
    \/ search_and_add_book

LookupSpec == Init /\ [][LookupNext]_vars

\* ------------------------------------------------------ racing requests
\* The handlers are plain `def` functions, which the framework runs on
\* worker threads: the load, the open and the dump of one request
\* interleave with those of the others.

\* collections the race starts from
InitialBooks == { <<>>, << model_dump(MkBody("123", Absent, PyTrue)) >> }

UpstreamDown == [status_code |-> 503, data |-> <<>>]

UpstreamHit(authors) ==
    [status_code |-> 200,
     data |-> [items |-> << [volumeInfo |->
                 MkVolumeInfo({"title", "authors", "description"}, authors)] >>]]

RacingRequests ==
    { Request("add", i, MkBody(i, Absent, Absent), NoResponse) : i \in ISBNs }
    \cup { Request("search_add", i, <<>>, r) :
             i \in ISBNs, r \in {UpstreamDown, UpstreamHit(<<"Frank Herbert">>)} }

ConcInit ==
    /\ initial \in InitialBooks
    /\ file = IF initial = <<>> THEN NoFile ELSE save_books(initial)
    /\ req = Request("none", "", <<>>, NoResponse)
    /\ status = 0
    /\ result = <<>>
    /\ before = NoFile
    /\ storeRead = FALSE
    /\ storeWritten = FALSE
    /\ before2 = NoBefore2
    /\ pc = [t \in Threads |-> "idle"]
    /\ creq = [t \in Threads |-> Request("none", "", <<>>, NoResponse)]
    /\ books = [t \in Threads |-> <<>>]
    /\ cstatus = [t \in Threads |-> 0]
    /\ seen = [t \in Threads |-> <<>>]

\* mutant of add_book_load: the record is put in front of the list
add_book_load_prepend(t) ==
    \E r \in RacingRequests :
        LET loaded == load_books(file) IN
        /\ pc[t] = "idle"
        /\ r.op = "add"
        /\ creq' = [creq EXCEPT ![t] = r]
        /\ seen' = [seen EXCEPT ![t] = loaded]
        /\ IF HasIsbn(loaded, r.body["isbn"])
           THEN /\ pc' = [pc EXCEPT ![t] = "done"]
                /\ cstatus' = [cstatus EXCEPT ![t] = 400]
                /\ books' = [books EXCEPT ![t] = loaded]
           ELSE /\ pc' = [pc EXCEPT ![t] = "open"]
                /\ books' = [books EXCEPT ![t] = <<model_dump(r.body)>> \o loaded]
                /\ UNCHANGED cstatus
        /\ UNCHANGED <<file, svars, initial>>

\* add_book up to the call of save_books: load, duplicate check, append
add_book_load(t) ==
    \E r \in RacingRequests :
        LET loaded == load_books(file) IN
        /\ pc[t] = "idle"
        /\ r.op = "add"
        /\ creq' = [creq EXCEPT ![t] = r]
        /\ seen' = [seen EXCEPT ![t] = loaded]
        /\ IF HasIsbn(loaded, r.body["isbn"])
           THEN /\ pc' = [pc EXCEPT ![t] = "done"]
                /\ cstatus' = [cstatus EXCEPT ![t] = 400]
                /\ books' = [books EXCEPT ![t] = loaded]
           ELSE /\ pc' = [pc EXCEPT ![t] = "open"]
                /\ books' = [books EXCEPT ![t] = Append(loaded, model_dump(r.body))]
                /\ UNCHANGED cstatus
        /\ UNCHANGED <<file, svars, initial>>

\* search_and_add_book up to the call of save_books: the lookup, which
\* shares nothing with the other threads, then load, check and append
search_and_add_book_load(t) ==
    \E r \in RacingRequests :
        LET found == fetch_google_book(r.isbn, r.resp)
            loaded == load_books(file)
        IN
        /\ pc[t] = "idle"
        /\ r.op = "search_add"
        /\ creq' = [creq EXCEPT ![t] = r]
        /\ IF found.status_code # 200
           THEN /\ pc' = [pc EXCEPT ![t] = "done"]
                /\ cstatus' = [cstatus EXCEPT ![t] = found.status_code]
                /\ UNCHANGED <<books, seen>>
           ELSE IF HasIsbn(loaded, r.isbn)
           THEN /\ pc' = [pc EXCEPT ![t] = "done"]
                /\ cstatus' = [cstatus EXCEPT ![t] = 400]
                /\ books' = [books EXCEPT ![t] = loaded]
                /\ seen' = [seen EXCEPT ![t] = loaded]
           ELSE /\ pc' = [pc EXCEPT ![t] = "open"]
                /\ books' = [books EXCEPT ![t] = Append(loaded, found.book)]
                /\ seen' = [seen EXCEPT ![t] = loaded]
                /\ UNCHANGED cstatus
        /\ UNCHANGED <<file, svars, initial>>

\* save_books, first half: open(BOOKS_FILE, "w") truncates the file
save_books_open(t) ==
    /\ pc[t] = "open"
    /\ file' = TruncatedFile
    /\ pc' = [pc EXCEPT ![t] = "dump"]
    /\ UNCHANGED <<svars, creq, books, cstatus, seen, initial>>

\* save_books, second half: json.dump writes from offset 0 and the file is
\* closed; the handler returns.  On a file another thread has written since
\* this one truncated it the dump overwrites the first bytes only: the
\* result is this thread's list, or not JSON when its dump is the shorter.
save_books_dump(t) ==
    /\ pc[t] = "dump"
    /\ file' \in IF file.kind = "empty"
                 THEN {save_books(books[t])}
                 ELSE {save_books(books[t]), GarbageFile}
    /\ pc' = [pc EXCEPT ![t] = "done"]
    /\ cstatus' = [cstatus EXCEPT ![t] = 200]
    /\ UNCHANGED <<svars, creq, books, seen, initial>>

ConcNext ==
    \E t \in Threads :
        \/ add_book_load(t)
        \/ search_and_add_book_load(t)
        \/ save_books_open(t)
        \/ save_books_dump(t)

ConcSpec == ConcInit /\ [][ConcNext]_vars

\* ================================================================ claims
\* the records a reader of the file finds
Stored(f) == IF f.kind = "json" THEN f.books ELSE <<>>

IsbnsOf(bs) == { bs[i].isbn : i \in 1..Len(bs) }

NoSharedIsbn(bs) ==
    \A i \in 1..Len(bs) : \A j \in 1..Len(bs) : i # j => bs[i].isbn # bs[j].isbn

\* the lookup of the request handled last failed / returned a record
LookupFailed ==
    \/ req.resp.status_code # 200
    \/ "items" \notin DOMAIN req.resp.data
    \/ Len(req.resp.data["items"]) = 0

LookupHit ==
    /\ req.resp.status_code = 200
    /\ "items" \in DOMAIN req.resp.data
    /\ Len(req.resp.data["items"]) > 0

\* C1: after any sequence of add, search-and-add, update, delete and
\* toggle-read requests run one after the other from the empty store, no
\* two records of the stored collection share an isbn.
C1_IsbnUnique == NoSharedIsbn(Stored(file))

\* C2: a manual add whose isbn is already stored fails with 400 and leaves
\* the stored collection as it was, no save performed.
C2_DuplicateAddRejected ==
    (req.op = "add" /\ req.isbn \in IsbnsOf(Stored(before)))
        => /\ status = 400
           /\ ~storeWritten
           /\ file = before

C2_Witness ==
    /\ req.op = "add"
    /\ req.isbn \in IsbnsOf(Stored(before))
    /\ Len(Stored(before)) >= 2
    /\ Stored(before)[1].isbn # req.isbn
    /\ status = 400

\* C3: when the lookup of a search-and-add fails, the request fails with
\* the lookup's error (the upstream status, or 404 for an answer without
\* items), also when the isbn is already stored, and the store is neither
\* read nor written.
C3_LookupFailureFirst ==
    (req.op = "search_add" /\ LookupFailed)
        => /\ status = (IF req.resp.status_code # 200
                        THEN req.resp.status_code ELSE 404)
           /\ ~storeRead
           /\ ~storeWritten
           /\ file = before

C3_Witness ==
    /\ req.op = "search_add"
    /\ req.resp.status_code = 503
    /\ req.isbn \in IsbnsOf(Stored(before))
    /\ status = 503

\* C4: when the lookup of a search-and-add succeeds and the isbn is already
\* stored, the request fails with 400, returns no record and leaves the
\* backing file as it was.
C4_DuplicateSearchAddRejected ==
    (req.op = "search_add" /\ LookupHit /\ req.isbn \in IsbnsOf(Stored(before)))
        => /\ status = 400
           /\ result = <<>>
           /\ ~storeWritten
           /\ file = before

C4_Witness ==
    /\ req.op = "search_add"
    /\ LookupHit
    /\ req.isbn \in IsbnsOf(Stored(before))
    /\ Len(Stored(before)) >= 2
    /\ Stored(before)[Len(Stored(before))].isbn # req.isbn
    /\ status = 400

\* C5: two successful toggle-read requests in a row on one isbn leave the
\* stored collection as it was before the first: is_read of the record is
\* back at its value (true, false or null), all else is untouched.
C5_ToggleTwiceRestores ==
    before2.set => Stored(file) = Stored(before2.file)

\* C6: an update of a stored isbn keeps the length of the collection, puts
\* the body's record at the position of the first record with that isbn
\* and keeps every other position; an update of an isbn that is not stored
\* fails with 404 and changes nothing.
C6_UpdateInPlace ==
    req.op = "update" =>
        LET old == Stored(before)
            new == Stored(file)
        IN  IF req.isbn \in IsbnsOf(old)
            THEN /\ status = 200
                 /\ Len(new) = Len(old)
                 /\ \E k \in 1..Len(old) :
                        /\ old[k].isbn = req.isbn
                        /\ \A j \in 1..(k-1) : old[j].isbn # req.isbn
                        /\ new[k] = model_dump(req.body)
                        /\ \A j \in 1..Len(old) : j # k => new[j] = old[j]
            ELSE /\ status = 404
                 /\ file = before

C6_Witness ==
    /\ req.op = "update"
    /\ status = 200
    /\ Len(Stored(before)) >= 2
    /\ Stored(before)[1].isbn # req.isbn
    /\ Stored(file) # Stored(before)

\* C7: a delete that returns 200 leaves no record with that isbn in the
\* store and keeps all other records in their order; a delete of an isbn
\* that is not stored returns 404 and changes nothing.
C7_DeleteRemovesOnlyMatch ==
    req.op = "delete" =>
        LET old == Stored(before)
            new == Stored(file)
        IN  IF req.isbn \in IsbnsOf(old)
            THEN /\ status = 200
                 /\ req.isbn \notin IsbnsOf(new)
                 /\ new = SelectSeq(old, LAMBDA b : b.isbn # req.isbn)
            ELSE /\ status = 404
                 /\ file = before

\* C8: on a 200 answer with items the lookup returns, from the first item,
\* its title or "Unknown", its authors joined with ", " or "Unknown" when
\* the authors are absent or an empty list, the queried isbn, its
\* description or "No description available", and is_read false; a 200
\* answer without items gives 404, any other answer the upstream status.
C8_LookupNormalization ==
    req.op = "search" =>
        IF LookupHit
        THEN LET vi == req.resp.data["items"][1].volumeInfo IN
             /\ status = 200
             /\ result.title = (IF "title" \in DOMAIN vi THEN vi["title"] ELSE "Unknown")
             /\ result.author = (IF "authors" \notin DOMAIN vi \/ Len(vi["authors"]) = 0
                                 THEN "Unknown"
                                 ELSE Join(", ", vi["authors"]))
             /\ result.isbn = req.isbn
             /\ result.description = (IF "description" \in DOMAIN vi
                                      THEN vi["description"]
                                      ELSE "No description available")
             /\ result.is_read = PyFalse
        ELSE /\ result = <<>>
             /\ status = (IF req.resp.status_code # 200
                          THEN req.resp.status_code ELSE 404)

\* the record a racing request appends
NewRecord(r) ==
    IF r.op = "add"
    THEN [title |-> r.body["title"], author |-> r.body["author"],
          isbn |-> r.isbn, description |-> PyNone, is_read |-> PyFalse]
    ELSE [title |-> "Dune", author |-> "Frank Herbert", isbn |-> r.isbn,
          description |-> "Sci-fi", is_read |-> PyFalse]

\* C9: last writer wins.  Whenever the backing file holds a list, it is the
\* initial list or the list one acknowledged request read at its load plus
\* that request's own record: whatever was saved between that load and
\* that save is gone.
C9_LastWriterWins ==
    file.kind = "json" =>
        \/ file.books = initial
        \/ \E t \in Threads :
              /\ cstatus[t] = 200
              /\ file.books = Append(seen[t], NewRecord(creq[t]))

\* C9: the lost update is reached: two manual adds of distinct isbns that
\* the initial list lacks both returned 200, and the file holds the initial
\* list and the record of one of them only.
C9_Witness ==
    \E t \in Threads : \E u \in Threads :
        /\ t # u
        /\ creq[t].op = "add" /\ creq[u].op = "add"
        /\ creq[t].isbn # creq[u].isbn
        /\ creq[t].isbn \notin IsbnsOf(initial)
        /\ creq[u].isbn \notin IsbnsOf(initial)
        /\ cstatus[t] = 200 /\ cstatus[u] = 200
        /\ file.kind = "json"
        /\ file.books = Append(initial, NewRecord(creq[u]))
        /\ creq[t].isbn \notin IsbnsOf(file.books)

\* C10: under every interleaving of the loads and saves of racing manual
\* add and search-and-add requests the backing file never holds two
\* records with one isbn.
C10_RacingAddsKeepIsbnUnique ==
    \A i \in 1..Len(Stored(file)) : \A j \in (i+1)..Len(Stored(file)) :
        Stored(file)[i].isbn # Stored(file)[j].isbn

\* two requests for one isbn both passed the duplicate check and both
\* returned 200
C10_Witness ==
    \E t \in Threads : \E u \in Threads :
        /\ t # u
        /\ creq[t].isbn = creq[u].isbn
        /\ cstatus[t] = 200 /\ cstatus[u] = 200
        /\ file.kind = "json"
        /\ creq[t].isbn \in IsbnsOf(file.books)
====
